---- MODULE Spec2Model ----
(***************************************************************************)
(* Zone-alert pipeline of the repository: extrema detection, level         *)
(* clustering, alert classification (src/zone_analyzer.py) and the two     *)
(* callers that keep the per-ticker sent-alert store: the Telegram bot     *)
(* (src/attached_assets/main_1761340665843.py with src/data_manager.py)    *)
(* and the dashboard (src/app.py).                                         *)
(*                                                                         *)
(* Prices are exact rationals [n |-> numerator, d |-> denominator] in      *)
(* lowest terms.  The classifier's floats are read as the reals they       *)
(* approximate; the clusterer's arithmetic (np.mean and the tolerance      *)
(* test) rounds every result to nearest, ties to even, as IEEE-754 does,   *)
(* on significands of MantissaBits bits.                                   *)
(***************************************************************************)
EXTENDS Integers, Sequences, FiniteSets, TLC

VARIABLES
    pc,      \* position of the pure-function specifications: "call" / "return"
    cpa,     \* check_price_alert: arguments and returned pair
    ext,     \* _find_peaks_and_troughs: arguments and returned lists
    clu,     \* _cluster_levels: arguments and returned list
    fsr,     \* find_support_resistance_zones: arguments, locals and result
    data,    \* DataManager.data of the bot (one record per user)
    job,     \* the bot's check_alerts coroutine: position and locals
    cmd,     \* the bot's command handler in progress: position and locals
    out,     \* what the bot's last step did
    st,      \* the dashboard's st.session_state and what the last check did
    hist     \* history of deliveries, kept for the properties only

vars == <<pc, cpa, ext, clu, fsr, data, job, cmd, out, st, hist>>
callerVars == <<data, job, cmd, out, st, hist>>

(***************************************************************************)
(* Python values                                                           *)
(***************************************************************************)
\* None in a slot that otherwise holds a str
None == "None"
\* None in a slot that otherwise holds a zone key
NoKey == <<>>

Abs(x) == IF x < 0 THEN -x ELSE x

RECURSIVE GCD(_, _)
GCD(a, b) == IF b = 0 THEN a ELSE GCD(b, a % b)

\* the rational n/d, d > 0, in lowest terms
Rat(n, d) ==
    LET g == GCD(Abs(n), d)
    IN  [n |-> n \div g, d |-> d \div g]

RInt(i) == [n |-> i, d |-> 1]
RAdd(a, b) == Rat(a.n * b.d + b.n * a.d, a.d * b.d)
RSub(a, b) == Rat(a.n * b.d - b.n * a.d, a.d * b.d)
RMul(a, b) == Rat(a.n * b.n, a.d * b.d)
\* a / b for b > 0
RDiv(a, b) == Rat(a.n * b.d, a.d * b.n)
RAbs(a) == [n |-> Abs(a.n), d |-> a.d]
\* comparisons, over the common denominator lcm(a.d, b.d)
RLt(a, b) == a.n * (b.d \div GCD(a.d, b.d)) < b.n * (a.d \div GCD(a.d, b.d))
RLe(a, b) == a.n * (b.d \div GCD(a.d, b.d)) <= b.n * (a.d \div GCD(a.d, b.d))

(***************************************************************************)
(* config.py                                                               *)
(***************************************************************************)
\* ZONE_WIDTH_PERCENT = 0.5
ZONE_WIDTH_PERCENT == Rat(1, 2)
\* APPROACH_DISTANCE_PERCENT = 2.0
APPROACH_DISTANCE_PERCENT == Rat(2, 1)

(***************************************************************************)
(* Timeframes                                                              *)
(***************************************************************************)
ALL_TIMEFRAMES == <<"5m", "15m", "1h", "4h", "1d">>
\* the timeframes of the model: the first two of ALL_TIMEFRAMES, in order
TimeframeList == SubSeq(ALL_TIMEFRAMES, 1, 2)
Timeframes == {TimeframeList[i] : i \in 1..Len(TimeframeList)}

(***************************************************************************)
(* ZoneAnalyzer.check_price_alert                                          *)
(***************************************************************************)
\* f"{price:.8f}" for price >= 0: the integer part and the 8 fraction digits,
\* rounded to nearest.  A tie needs a denominator divisible by 2^9, which the
\* prices of the model never have (their remainders n % d stay below 22).
Fmt8Trunc(price) ==
    LET q == price.n \div price.d
        r == price.n % price.d
    IN  <<q, (r * 100000000) \div price.d>>

Fmt8(price) ==
    LET q == price.n \div price.d
        r == price.n % price.d
        f == (r * 100000000) \div price.d
        rem == (r * 100000000) % price.d
        up == IF 2 * rem > price.d THEN f + 1 ELSE f
    IN  IF up = 100000000 THEN <<q + 1, 0>> ELSE <<q, up>>

\* the key carrying the centroid unrounded
ZoneKey_Exact(timeframe, ztype, price) == <<timeframe, ztype, <<price.n, price.d>>>>

\* f"{timeframe}_{ztype}_{price:.8f}", as the sequence of its "_"-separated parts
ZoneKey(timeframe, ztype, price) == <<timeframe, ztype, Fmt8(price)>>

check_price_alert_ApproachFirst(current_price, zone, timeframe) ==
    LET price == zone.price
        ztype == zone.type
        width == RDiv(ZONE_WIDTH_PERCENT, RInt(100))
        approach == RDiv(APPROACH_DISTANCE_PERCENT, RInt(100))
        lower == RMul(price, RSub(RInt(1), RDiv(width, RInt(2))))
        upper == RMul(price, RAdd(RInt(1), RDiv(width, RInt(2))))
        dist == RDiv(RAbs(RSub(current_price, price)), price)
        key == ZoneKey(timeframe, ztype, price)
    IN  IF RLe(dist, approach) THEN <<"approaching", key>>
        ELSE IF ztype = "support" /\ RLt(current_price, lower) THEN <<"broken", key>>
        ELSE IF ztype = "resistance" /\ RLt(upper, current_price) THEN <<"broken", key>>
        ELSE IF RLe(lower, current_price) /\ RLe(current_price, upper)
             THEN <<"in_zone", key>>
        ELSE <<None, NoKey>>

check_price_alert(current_price, zone, timeframe) ==
    LET price == zone.price
        ztype == zone.type
        width == RDiv(ZONE_WIDTH_PERCENT, RInt(100))
        approach == RDiv(APPROACH_DISTANCE_PERCENT, RInt(100))
        lower == RMul(price, RSub(RInt(1), RDiv(width, RInt(2))))
        upper == RMul(price, RAdd(RInt(1), RDiv(width, RInt(2))))
        dist == RDiv(RAbs(RSub(current_price, price)), price)
        key == ZoneKey(timeframe, ztype, price)
    IN  IF ztype = "support" /\ RLt(current_price, lower) THEN <<"broken", key>>
        ELSE IF ztype = "resistance" /\ RLt(upper, current_price) THEN <<"broken", key>>
        ELSE IF RLe(lower, current_price) /\ RLe(current_price, upper)
             THEN <<"in_zone", key>>
        ELSE IF RLe(dist, approach) THEN <<"approaching", key>>
        ELSE <<None, NoKey>>

(***************************************************************************)
(* Values a variable holds in a specification that does not use it         *)
(***************************************************************************)
Idle == [idle |-> TRUE]

(***************************************************************************)
(* Specification SpecAlert: one call of check_price_alert                  *)
(***************************************************************************)
ZoneTypes == {"support", "resistance"}

\* largest touches count of a zone handed to the classifier
MaxTouches == 2

\* centroid prices of the zones handed to the classifier
AlertZonePrices ==
    {RInt(100), Rat(1, 3), Rat(2, 3), Rat(200, 3), Rat(1, 7)}

\* current prices handed to the classifier: the decision table's rows, the
\* band and approach boundaries of price 100, and prices around 1/3
AlertCurrentPrices ==
    {Rat(997, 10), Rat(399, 4), RInt(100), Rat(401, 4), Rat(1005, 10),
     Rat(1015, 10), RInt(98), RInt(102), RInt(103), RInt(97),
     Rat(1, 3), Rat(33, 100), Rat(34, 100), Rat(2, 3)}

AlertZones ==
    {[price |-> p, touches |-> t, min_price |-> p, max_price |-> p,
      type |-> ty, timeframe |-> tf] :
        p \in AlertZonePrices, t \in 1..MaxTouches, ty \in ZoneTypes,
        tf \in Timeframes}

\* two centroids less than 10^-8 apart, 0.00005 and 0.0000499975..., both
\* formatted 0.00005000
ClosePair == {Rat(1, 20000), Rat(1, 20001)}

\* zones of these centroids, with members around them
ClosePairZones ==
    {[price |-> p, touches |-> t, min_price |-> lo, max_price |-> hi,
      type |-> ty, timeframe |-> tf] :
        p \in ClosePair, t \in 1..MaxTouches,
        lo \in {Rat(1, 20001), Rat(1, 20002)}, hi \in {Rat(1, 20000), Rat(1, 19999)},
        ty \in ZoneTypes, tf \in Timeframes}

\* the calls: a zone and a current price
AlertCalls ==
    (AlertZones \X AlertCurrentPrices) \cup (ClosePairZones \X ClosePair)

InitAlert ==
    /\ pc = "call"
    /\ \E call \in AlertCalls :
          cpa = [current_price |-> call[2], zone |-> call[1],
                 timeframe |-> call[1].timeframe, result |-> <<None, NoKey>>]
    /\ ext = Idle /\ clu = Idle /\ fsr = Idle /\ data = Idle /\ job = Idle /\ cmd = Idle
    /\ out = Idle /\ st = Idle /\ hist = Idle

CallCheckPriceAlert ==
    /\ pc = "call"
    /\ pc' = "return"
    /\ cpa' = [cpa EXCEPT !.result =
                  check_price_alert(cpa.current_price, cpa.zone, cpa.timeframe)]
    /\ UNCHANGED <<ext, clu, fsr, callerVars>>

NextAlert == CallCheckPriceAlert

SpecAlert == InitAlert /\ [][NextAlert]_vars

(***************************************************************************)
(* C1, C2: the classifier                                                  *)
(***************************************************************************)
\* The decision order of the claim in whole numbers, for current price a/b,
\* centroid n/d, width 0.5% (band factors 399/400 and 401/400) and approach
\* 2% (1/50).
C1_Class(cp, z) ==
    LET a == cp.n
        b == cp.d
        n == z.price.n
        d == z.price.d
    IN  IF z.type = "support" /\ a * d * 400 < n * b * 399 THEN "broken"
        ELSE IF z.type = "resistance" /\ a * d * 400 > n * b * 401 THEN "broken"
        ELSE IF n * b * 399 <= a * d * 400 /\ a * d * 400 <= n * b * 401
             THEN "in_zone"
        ELSE IF Abs(a * d - n * b) * 50 <= n * b THEN "approaching"
        ELSE None

C1_Row(cp, ty, expected) ==
    (cpa.zone.price = RInt(100) /\ cpa.zone.type = ty /\ cpa.current_price = cp)
        => cpa.result[1] = expected

\* C1: check_price_alert classifies by first match in the order broken
\* (support below the band), broken (resistance above the band), in_zone,
\* approaching, None; at price 100 this gives the five rows of the decision
\* table.
C1_DecisionOrder ==
    pc = "return" =>
        /\ cpa.result[1] = C1_Class(cpa.current_price, cpa.zone)
        /\ C1_Row(Rat(997, 10), "support", "broken")
        /\ C1_Row(RInt(100), "support", "in_zone")
        /\ C1_Row(Rat(1015, 10), "support", "approaching")
        /\ C1_Row(RInt(103), "support", None)
        /\ C1_Row(Rat(1005, 10), "resistance", "broken")

\* a broken support inside the approach distance: the order of the tests decides
C1_Witness ==
    /\ pc = "return"
    /\ cpa.zone.price = RInt(100)
    /\ cpa.zone.type = "support"
    /\ cpa.current_price = Rat(997, 10)
    /\ cpa.result[1] = "broken"

\* C2: the returned key is None exactly when the alert type is None; the
\* alert type is one of None, approaching, in_zone, broken; a non-None key
\* is timeframe, zone type and the 8-decimal number nearest to the centroid.
C2_KeyContract ==
    pc = "return" =>
        LET ty == cpa.result[1]
            key == cpa.result[2]
            n == cpa.zone.price.n
            d == cpa.zone.price.d
        IN  /\ (key = NoKey) <=> (ty = None)
            /\ ty \in {None, "approaching", "in_zone", "broken"}
            /\ ty # None =>
                  /\ Len(key) = 3
                  /\ key[1] = cpa.timeframe
                  /\ key[2] = cpa.zone.type
                  /\ key[3][2] \in 0..99999999
                  /\ 2 * Abs(key[3][2] * d - (n - key[3][1] * d) * 100000000) <= d

\* a key whose 8th decimal is rounded up: 2/3 gives 0.66666667
C2_Witness ==
    /\ pc = "return"
    /\ cpa.zone.price = Rat(2, 3)
    /\ cpa.result[1] = "in_zone"
    /\ cpa.result[2] = <<cpa.timeframe, cpa.zone.type, <<0, 66666667>>>>

(***************************************************************************)
(* C18: what the zone key depends on                                       *)
(***************************************************************************)
\* the price in units of 10^-8, to the nearest unit, integer part apart
Units8(price) ==
    <<price.n \div price.d,
      (2 * (price.n % price.d) * 100000000 + price.d) \div (2 * price.d)>>

\* C18: the zone key depends only on the timeframe, the zone type and the
\* centroid rounded to 8 decimals: any other call that produces an alert
\* for a zone agreeing on these three returns the same key, whatever the
\* touches, min_price, max_price and current price; and the same call made
\* again returns the same key.
C18_KeyDependsOnRoundedPrice ==
    (pc = "return" /\ cpa.result[1] # None) =>
        /\ check_price_alert(cpa.current_price, cpa.zone, cpa.timeframe)[2]
              = cpa.result[2]
        /\ \A call \in AlertCalls :
              LET z == call[1]
                  r == check_price_alert(call[2], z, z.timeframe)
              IN  (/\ z.timeframe = cpa.timeframe
                   /\ z.type = cpa.zone.type
                   /\ Units8(z.price) = Units8(cpa.zone.price)
                   /\ r[1] # None)
                      => r[2] = cpa.result[2]

\* an alert for the zone of centroid 1/20001, which shares its rounded
\* price with the zones of centroid 1/20000
C18_Witness ==
    /\ pc = "return"
    /\ cpa.result[1] # None
    /\ cpa.zone.price = Rat(1, 20001)
    /\ cpa.zone.touches = MaxTouches

(***************************************************************************)
(* ZoneAnalyzer._find_peaks_and_troughs                                    *)
(***************************************************************************)
(***************************************************************************)
\* numpy.take(..., mode='clip'), the default mode of argrelextrema: an index
\* outside 1..n is replaced by the nearest index of the series
ClipWrap(j, n) == IF j < 1 THEN j + n ELSE IF j > n THEN j - n ELSE j

ClipReflect(j, n) ==
    IF j < 1 THEN (IF 2 - j > n THEN n ELSE 2 - j)
    ELSE IF j > n THEN (IF 2 * n - j < 1 THEN 1 ELSE 2 * n - j)
    ELSE j

Clip(j, n) == IF j < 1 THEN 1 ELSE IF j > n THEN n ELSE j

\* the comparators handed to argrelextrema, by name
np_greater == "np.greater"
np_less == "np.less"
np_greater_equal == "np.greater_equal"
np_less_equal == "np.less_equal"

\* comparator(a, b)
Compare(comparator, a, b) ==
    CASE comparator = np_greater -> a > b
      [] comparator = np_less -> a < b
      [] comparator = np_greater_equal -> a >= b
      [] comparator = np_less_equal -> a <= b

\* scipy.signal.argrelextrema(values, comparator, order=order)[0]: the
\* indices, ascending, whose value compares true against the values at
\* every shift 1..order to both sides, indices clipped to the series
argrelextrema(values, comparator, order) ==
    LET n == Len(values)
        ok(i) == \A shift \in 1..order :
                    /\ Compare(comparator, values[i], values[Clip(i + shift, n)])
                    /\ Compare(comparator, values[i], values[Clip(i - shift, n)])
    IN  SelectSeq([i \in 1..n |-> i], ok)

Column(df, name) == [i \in 1..Len(df) |-> df[i][name]]

_find_peaks_and_troughs_GreaterEqual(df, order) ==
    LET high == Column(df, "high")
        low == Column(df, "low")
        peaks_idx == argrelextrema(high, np_greater_equal, order)
        troughs_idx == argrelextrema(low, np_less_equal, order)
    IN  [peaks |-> [k \in 1..Len(peaks_idx) |->
                      <<df[peaks_idx[k]].timestamp, df[peaks_idx[k]].high>>],
         troughs |-> [k \in 1..Len(troughs_idx) |->
                      <<df[troughs_idx[k]].timestamp, df[troughs_idx[k]].low>>]]

_find_peaks_and_troughs(df, order) ==
    LET high == Column(df, "high")
        low == Column(df, "low")
        peaks_idx == argrelextrema(high, np_greater, order)
        troughs_idx == argrelextrema(low, np_less, order)
    IN  [peaks |-> [k \in 1..Len(peaks_idx) |->
                      <<df[peaks_idx[k]].timestamp, df[peaks_idx[k]].high>>],
         troughs |-> [k \in 1..Len(troughs_idx) |->
                      <<df[troughs_idx[k]].timestamp, df[troughs_idx[k]].low>>]]

(***************************************************************************)
(* Specification SpecExtrema: one call of _find_peaks_and_troughs          *)
(***************************************************************************)
\* longest candle series
MaxCandles == 5

\* the default window radius of _find_peaks_and_troughs
DefaultOrder == 5

\* window radii of the calls
Orders == {1, 2, DefaultOrder}

\* high and low prices of the candles
CandlePrices == {1, 2, 3}

\* timestamp (ms) of the i-th candle: strictly increasing
Timestamp(i) == 60000 * i

\* the candles keep low <= high
CandleBodies ==
    {c \in [high : CandlePrices, low : CandlePrices] : c.low <= c.high}

DataFrames ==
    UNION {[1..n -> CandleBodies] : n \in 0..MaxCandles}

WithTimestamps(bodies) ==
    [i \in 1..Len(bodies) |->
        [timestamp |-> Timestamp(i), high |-> bodies[i].high, low |-> bodies[i].low]]

InitExtrema ==
    /\ pc = "call"
    /\ \E bodies \in DataFrames, order \in Orders :
          ext = [df |-> WithTimestamps(bodies), order |-> order,
                 peaks |-> <<>>, troughs |-> <<>>]
    /\ cpa = Idle /\ clu = Idle /\ fsr = Idle /\ data = Idle /\ job = Idle /\ cmd = Idle
    /\ out = Idle /\ st = Idle /\ hist = Idle

CallFindPeaksAndTroughs ==
    /\ pc = "call"
    /\ pc' = "return"
    /\ LET r == _find_peaks_and_troughs(ext.df, ext.order)
       IN  ext' = [ext EXCEPT !.peaks = r.peaks, !.troughs = r.troughs]
    /\ UNCHANGED <<cpa, clu, fsr, callerVars>>

NextExtrema == CallFindPeaksAndTroughs

SpecExtrema == InitExtrema /\ [][NextExtrema]_vars

(***************************************************************************)
(* C7, C8, C9: the extrema detector                                        *)
(***************************************************************************)
\* index of the candle with timestamp ts (timestamps are distinct)
IndexOf(ts) == CHOOSE i \in 1..Len(ext.df) : ext.df[i].timestamp = ts

Near(i, j) == j # i /\ Abs(j - i) <= ext.order

\* C7: every reported peak has a high strictly greater than the high of
\* every other candle of the series at distance at most order, every
\* reported trough a low strictly smaller than every such neighbour's low;
\* a series with constant high has no peak.
C7_StrictExtrema ==
    pc = "return" =>
        /\ \A k \in 1..Len(ext.peaks) :
              /\ \E i \in 1..Len(ext.df) : ext.df[i].timestamp = ext.peaks[k][1]
              /\ ext.df[IndexOf(ext.peaks[k][1])].high = ext.peaks[k][2]
              /\ \A j \in 1..Len(ext.df) :
                    Near(IndexOf(ext.peaks[k][1]), j)
                        => ext.df[j].high < ext.peaks[k][2]
        /\ \A k \in 1..Len(ext.troughs) :
              /\ \E i \in 1..Len(ext.df) : ext.df[i].timestamp = ext.troughs[k][1]
              /\ ext.df[IndexOf(ext.troughs[k][1])].low = ext.troughs[k][2]
              /\ \A j \in 1..Len(ext.df) :
                    Near(IndexOf(ext.troughs[k][1]), j)
                        => ext.df[j].low > ext.troughs[k][2]
        /\ (\A i, j \in 1..Len(ext.df) : ext.df[i].high = ext.df[j].high)
              => ext.peaks = <<>>

\* candle 2 beats both neighbours and is reported; candle 4 beats candle 3
\* but ties candle 5 and is not
C7_Witness ==
    /\ pc = "return"
    /\ ext.order = 1
    /\ Len(ext.df) = 5
    /\ [i \in 1..5 |-> ext.df[i].high] = <<1, 3, 2, 3, 3>>
    /\ ext.peaks = <<<<Timestamp(2), 3>>>>

\* C8 as claimed: no candle with fewer than order candles before it or after
\* it is reported as a peak or a trough.
C8_EdgeExcluded ==
    pc = "return" =>
        \A k \in 1..Len(ext.peaks), m \in 1..Len(ext.troughs) :
            /\ IndexOf(ext.peaks[k][1]) > ext.order
            /\ IndexOf(ext.peaks[k][1]) <= Len(ext.df) - ext.order
            /\ IndexOf(ext.troughs[m][1]) > ext.order
            /\ IndexOf(ext.troughs[m][1]) <= Len(ext.df) - ext.order

\* C8 amended: the first and the last candle of the series are never
\* reported as a peak or a trough (a candle nearer than order to a boundary
\* is compared with the neighbours that exist, and can be reported).
C8_FirstLastExcluded ==
    pc = "return" =>
        /\ \A k \in 1..Len(ext.peaks) :
              IndexOf(ext.peaks[k][1]) \notin {1, Len(ext.df)}
        /\ \A k \in 1..Len(ext.troughs) :
              IndexOf(ext.troughs[k][1]) \notin {1, Len(ext.df)}

\* the second candle of a series is reported with the default radius 5
C8_Witness ==
    /\ pc = "return"
    /\ ext.order = DefaultOrder
    /\ Len(ext.df) = 5
    /\ \E k \in 1..Len(ext.peaks) : ext.peaks[k][1] = Timestamp(2)
    /\ ext.df[1].high > ext.df[5].high

\* C9 as claimed: a series of fewer than 2*order+1 candles yields no peak
\* and no trough.
C9_ShortSeriesEmpty ==
    (pc = "return" /\ Len(ext.df) < 2 * ext.order + 1)
        => (ext.peaks = <<>> /\ ext.troughs = <<>>)

\* C9 amended: a series of fewer than 3 candles, the empty series included,
\* yields no peak and no trough.
C9_UnderThreeEmpty ==
    (pc = "return" /\ Len(ext.df) < 3)
        => (ext.peaks = <<>> /\ ext.troughs = <<>>)

\* two candles with different highs and lows, and the empty series
C9_Witness ==
    /\ pc = "return"
    /\ Len(ext.df) = 2
    /\ ext.df[1].high > ext.df[2].high
    /\ ext.df[1].low < ext.df[2].low
    /\ ext.peaks = <<>>
    /\ ext.troughs = <<>>

(***************************************************************************)
(* ZoneAnalyzer._cluster_levels                                            *)
(***************************************************************************)
\* the slice [:5] of _cluster_levels
ZoneCap == 5

Range(seq) == {seq[i] : i \in 1..Len(seq)}
Min(seq) == CHOOSE x \in Range(seq) : \A y \in Range(seq) : x <= y
Max(seq) == CHOOSE x \in Range(seq) : \A y \in Range(seq) : x >= y

(***************************************************************************)
(* Floating point: round to nearest, ties to even                          *)
(***************************************************************************)
\* bits of the significand (binary64 has 53)
MantissaBits == 11

RECURSIVE Pow2(_)
Pow2(k) == IF k = 0 THEN 1 ELSE 2 * Pow2(k - 1)

\* n/d, n >= 0, rounded to an integer, a tie to the even one
RoundHalfEven(n, d) ==
    LET q == n \div d
        r == n % d
    IN  IF 2 * r < d THEN q
        ELSE IF 2 * r > d THEN q + 1
        ELSE IF q % 2 = 0 THEN q ELSE q + 1

FlHigh == Pow2(MantissaBits)
FlLow == Pow2(MantissaBits - 1)

\* n/d * 2^e with n/d > 0 brought into [FlLow, FlHigh) by powers of two and
\* rounded there: <<significand, exponent>>
RECURSIVE FlNorm(_, _, _)
FlNorm(n, d, e) ==
    IF n >= d * FlHigh THEN FlNorm(n, 2 * d, e + 1)
    ELSE IF n < d * FlLow THEN FlNorm(2 * n, d, e - 1)
    ELSE <<RoundHalfEven(n, d), e>>

\* the float nearest to n/d > 0
FlRound(n, d) ==
    LET me == FlNorm(n, d, 0)
    IN  IF me[2] >= 0 THEN RInt(me[1] * Pow2(me[2]))
        ELSE Rat(me[1], Pow2(-me[2]))

\* the float nearest to the rational a
Fl(a) ==
    IF a.n = 0 THEN RInt(0)
    ELSE IF a.n < 0 THEN RSub(RInt(0), FlRound(-a.n, a.d))
    ELSE FlRound(a.n, a.d)

FlAdd(a, b) == Fl(RAdd(a, b))
FlSub(a, b) == Fl(RSub(a, b))
FlDiv(a, b) == Fl(RDiv(a, b))

\* res += seq[i] for i = from .. Len(seq), in order
RECURSIVE FlAccumulate(_, _, _)
FlAccumulate(res, seq, from) ==
    IF from > Len(seq) THEN res
    ELSE FlAccumulate(FlAdd(res, RInt(seq[from])), seq, from + 1)

\* np.add.reduce over a float64 array of fewer than 128 elements: below 8
\* elements a plain loop from the first element; from 8 on, eight running
\* sums over the blocks of eight, combined pairwise, then the rest in order
np_add_reduce(seq) ==
    LET n == Len(seq)
        blocks == n \div 8
        r(j) == FlAccumulate(RInt(0), [b \in 1..blocks |-> seq[8 * (b - 1) + j]], 1)
    IN  IF n < 8 THEN FlAccumulate(RInt(seq[1]), seq, 2)
        ELSE FlAccumulate(
                FlAdd(FlAdd(FlAdd(r(1), r(2)), FlAdd(r(3), r(4))),
                      FlAdd(FlAdd(r(5), r(6)), FlAdd(r(7), r(8)))),
                seq, 8 * blocks + 1)

\* np.mean of a non-empty list of levels: the sum divided by the count
np_mean(seq) == FlDiv(np_add_reduce(seq), RInt(Len(seq)))

\* seq[:k]
Take(seq, k) == SubSeq(seq, 1, IF k < Len(seq) THEN k ELSE Len(seq))

\* sorted(levels): ascending
RECURSIVE InsertAsc(_, _)
InsertAsc(x, seq) ==
    IF seq = <<>> THEN <<x>>
    ELSE IF x < seq[1] THEN <<x>> \o seq
    ELSE <<seq[1]>> \o InsertAsc(x, Tail(seq))

\* the list left in the order given
sorted_AsGiven(seq) == seq

RECURSIVE sorted(_)
sorted(seq) ==
    IF seq = <<>> THEN <<>> ELSE InsertAsc(seq[1], sorted(Tail(seq)))

\* the insertion that puts a zone before the zones of equal touches
RECURSIVE InsertByTouches_TiesFirst(_, _)
InsertByTouches_TiesFirst(z, zones) ==
    IF zones = <<>> THEN <<z>>
    ELSE IF zones[1].touches <= z.touches THEN <<z>> \o zones
    ELSE <<zones[1]>> \o InsertByTouches_TiesFirst(z, Tail(zones))

\* sorted(zones, key=lambda x: x['touches'], reverse=True): stable, zones of
\* equal touches keep their order
RECURSIVE InsertByTouches(_, _)
InsertByTouches(z, zones) ==
    IF zones = <<>> THEN <<z>>
    ELSE IF zones[1].touches < z.touches THEN <<z>> \o zones
    ELSE <<zones[1]>> \o InsertByTouches(z, Tail(zones))

RECURSIVE SortByTouches(_)
SortByTouches(zones) ==
    IF zones = <<>> THEN <<>>
    ELSE InsertByTouches(zones[Len(zones)],
                         SortByTouches(SubSeq(zones, 1, Len(zones) - 1)))

\* the dict with min_price and max_price exchanged
MakeZone_Swapped(current) ==
    [price |-> np_mean(current), touches |-> Len(current),
     min_price |-> RInt(Max(current)), max_price |-> RInt(Min(current))]

\* the dict appended to zones for a closed cluster
MakeZone(current) ==
    [price |-> np_mean(current), touches |-> Len(current),
     min_price |-> RInt(Min(current)), max_price |-> RInt(Max(current))]

\* the test made against the first member of the open cluster
Joins_FirstMember(level, current, tolerance_percent) ==
    LET center == RInt(current[1])
    IN  RLe(FlDiv(RAbs(FlSub(RInt(level), center)), center),
            FlDiv(tolerance_percent, RInt(100)))

\* the test of line 151 for a level against the open cluster
Joins(level, current, tolerance_percent) ==
    LET center == np_mean(current)
    IN  RLe(FlDiv(RAbs(FlSub(RInt(level), center)), center),
            FlDiv(tolerance_percent, RInt(100)))

\* the for loop over levels[1:] from position i on, and the final append
RECURSIVE ClusterScan(_, _, _, _, _)
ClusterScan(levels, i, current, zones, tolerance_percent) ==
    IF i > Len(levels) THEN Append(zones, MakeZone(current))
    ELSE IF Joins(levels[i], current, tolerance_percent)
         THEN ClusterScan(levels, i + 1, Append(current, levels[i]), zones,
                          tolerance_percent)
    ELSE ClusterScan(levels, i + 1, <<levels[i]>>,
                     Append(zones, MakeZone(current)), tolerance_percent)

\* all clusters of the scan, in the order they were closed
Clusters(levels, tolerance_percent) ==
    IF levels = <<>> THEN <<>>
    ELSE ClusterScan(sorted(levels), 2, <<sorted(levels)[1]>>, <<>>,
                     tolerance_percent)

_cluster_levels_NoCap(levels, tolerance_percent) ==
    IF levels = <<>> THEN <<>>
    ELSE SortByTouches(Clusters(levels, tolerance_percent))

\* the clusterer without the guard of lines 142-143: levels[0] of an empty
\* list raises IndexError
_cluster_levels_NoGuard(levels, tolerance_percent) ==
    IF levels = <<>> THEN <<"IndexError">>
    ELSE Take(SortByTouches(Clusters(levels, tolerance_percent)), ZoneCap)

\* the clusterer without the ranking of line 170
_cluster_levels_Unranked(levels, tolerance_percent) ==
    IF levels = <<>> THEN <<>>
    ELSE Take(Clusters(levels, tolerance_percent), ZoneCap)

_cluster_levels(levels, tolerance_percent) ==
    IF levels = <<>> THEN <<>>
    ELSE Take(SortByTouches(Clusters(levels, tolerance_percent)), ZoneCap)

(***************************************************************************)
(* Specification SpecCluster: one call of _cluster_levels                  *)
(***************************************************************************)
\* longest list of levels
MaxLevels == 7
\* longest list of levels taken in every order
MaxShuffled == 4

\* levels of the calls: 1000, 1004 and 1007 lie within 0.7% of each other,
\* the others more than 9% apart
LevelPrices == {1000, 1004, 1007, 1100, 1200, 1300}

\* tolerances of the calls: the configured ZONE_WIDTH_PERCENT and half of it
Tolerances == {ZONE_WIDTH_PERCENT, Rat(1, 4)}

\* seq[::-1]
Reverse(seq) == [i \in 1..Len(seq) |-> seq[Len(seq) + 1 - i]]

\* the ascending lists of n levels
RECURSIVE AscendingLists(_)
AscendingLists(n) ==
    IF n = 0 THEN {<<>>}
    ELSE {Append(l, x) : <<l, x>> \in
             {lx \in AscendingLists(n - 1) \X LevelPrices :
                 lx[1] = <<>> \/ lx[1][Len(lx[1])] <= lx[2]}}

\* the lists of the calls: every list up to MaxShuffled levels, and the
\* ascending and the descending lists up to MaxLevels levels
LevelLists ==
    UNION {[1..n -> LevelPrices] : n \in 0..MaxShuffled}
    \cup UNION {AscendingLists(n) \cup {Reverse(l) : l \in AscendingLists(n)} :
                  n \in 0..MaxLevels}

InitCluster ==
    /\ pc = "call"
    /\ \E levels \in LevelLists, t \in Tolerances :
          clu = [levels |-> levels, tolerance_percent |-> t, zones |-> <<>>]
    /\ cpa = Idle /\ ext = Idle /\ fsr = Idle
    /\ data = Idle /\ job = Idle /\ cmd = Idle
    /\ out = Idle /\ st = Idle /\ hist = Idle

CallClusterLevels ==
    /\ pc = "call"
    /\ pc' = "return"
    /\ clu' = [clu EXCEPT !.zones =
                  _cluster_levels(clu.levels, clu.tolerance_percent)]
    /\ UNCHANGED <<cpa, ext, fsr, callerVars>>

NextCluster == CallClusterLevels

SpecCluster == InitCluster /\ [][NextCluster]_vars

(***************************************************************************)
(* C10: the cap of the clusterer                                           *)
(***************************************************************************)
\* C10: _cluster_levels returns at most 5 zones, whatever the number of
\* clusters the scan forms.
C10_AtMostFive ==
    pc = "return" => Len(clu.zones) <= 5

\* the scan forms more than five clusters and five zones are returned
C10_Witness ==
    /\ pc = "return"
    /\ Len(Clusters(clu.levels, clu.tolerance_percent)) > 5
    /\ Len(clu.zones) = 5

(***************************************************************************)
(* C11 .. C15: the clusterer                                               *)
(***************************************************************************)
\* C11: the list returned by _cluster_levels is ordered by touches
\* non-increasing, and every cluster the cap dropped has touches less than or
\* equal to the touches of every returned zone.
C11_RankedByTouches ==
    pc = "return" =>
        LET zones == clu.zones
            dropped == Range(Clusters(clu.levels, clu.tolerance_percent))
                          \ Range(zones)
        IN  /\ \A i, j \in 1..Len(zones) :
                  i < j => zones[i].touches >= zones[j].touches
            /\ \A c \in dropped : \A z \in Range(zones) :
                  c.touches <= z.touches

\* more than five clusters of unequal touches: the first returned zone has
\* more touches than the last, and a cluster was dropped
C11_Witness ==
    /\ pc = "return"
    /\ Len(Clusters(clu.levels, clu.tolerance_percent)) > ZoneCap
    /\ Len(clu.zones) = ZoneCap
    /\ clu.zones[1].touches > clu.zones[ZoneCap].touches

MeanError(touches) == Rat(touches, Pow2(MantissaBits - 1))

SwapAdjacent(levels, i) ==
    [k \in 1..Len(levels) |->
        IF k = i THEN levels[i + 1] ELSE IF k = i + 1 THEN levels[i] ELSE levels[k]]

\* C13: _cluster_levels is independent of input order: the call on the same
\* levels in another order (any two neighbours exchanged, which generates
\* every order, or the whole list reversed) returns the identical zone list,
\* and so does the call repeated on the same list.
C13_OrderIndependent ==
    pc = "return" =>
        /\ _cluster_levels(clu.levels, clu.tolerance_percent) = clu.zones
        /\ _cluster_levels(Reverse(clu.levels), clu.tolerance_percent) = clu.zones
        /\ \A i \in 1..(Len(clu.levels) - 1) :
              _cluster_levels(SwapAdjacent(clu.levels, i), clu.tolerance_percent)
                 = clu.zones

\* a call on a list that is not ascending, forming a cluster of several
\* members and another cluster
C13_Witness ==
    /\ pc = "return"
    /\ \E i \in 1..(Len(clu.levels) - 1) : clu.levels[i] > clu.levels[i + 1]
    /\ Len(clu.zones) >= 2
    /\ clu.zones[1].touches >= 2

\* the levels in ascending order, smallest first, by selection
RECURSIVE RefAscending(_)
RefAscending(levels) ==
    IF levels = <<>> THEN <<>>
    ELSE LET m == Min(levels)
             i == CHOOSE k \in 1..Len(levels) :
                     levels[k] = m /\ \A h \in 1..(k - 1) : levels[h] # m
         IN  <<m>> \o RefAscending(SubSeq(levels, 1, i - 1)
                                     \o SubSeq(levels, i + 1, Len(levels)))

\* |level - mean| / mean <= t / 100 for the mean of members, in floats
RefWithin(level, members, t) ==
    LET mean == np_mean(members)
        diff == FlSub(RInt(level), mean)
    IN  RLe(FlDiv(IF diff.n < 0 THEN RSub(RInt(0), diff) ELSE diff, mean),
            FlDiv(t, RInt(100)))

\* the number of leading levels of the first cluster: the cluster of the
\* first m levels grows while the next level is within t of its mean
RECURSIVE RefExtend(_, _, _)
RefExtend(levels, m, t) ==
    IF m < Len(levels) /\ RefWithin(levels[m + 1], SubSeq(levels, 1, m), t)
    THEN RefExtend(levels, m + 1, t)
    ELSE m

\* the clusters of ascending levels, each a list of members
RECURSIVE RefClusters(_, _)
RefClusters(levels, t) ==
    IF levels = <<>> THEN <<>>
    ELSE LET m == RefExtend(levels, 1, t)
         IN  <<SubSeq(levels, 1, m)>>
                \o RefClusters(SubSeq(levels, m + 1, Len(levels)), t)

\* the zones of the greedy single pass
RefZones(levels, t) ==
    {[price |-> np_mean(c), touches |-> Len(c),
      min_price |-> RInt(c[1]), max_price |-> RInt(c[Len(c)])] :
        c \in Range(RefClusters(RefAscending(levels), t))}

\* C14: _cluster_levels equals the greedy single pass: levels scanned in
\* ascending order, a level joining the open cluster exactly when it is
\* within t percent of the mean of the members the cluster has at that
\* moment, each closed cluster a zone with price the mean, touches the
\* count, min_price and max_price the smallest and the largest member.
C14_GreedyRunningMean ==
    pc = "return" =>
        LET ref == RefZones(clu.levels, clu.tolerance_percent)
        IN  /\ Range(clu.zones) \subseteq ref
            /\ Len(clu.zones) = Cardinality(Range(clu.zones))
            /\ Len(clu.zones)
                  = IF Cardinality(ref) < ZoneCap THEN Cardinality(ref) ELSE ZoneCap

\* a zone of three members whose largest member is farther than the
\* tolerance from the first: it joined by the running mean
C14_Witness ==
    /\ pc = "return"
    /\ \E z \in Range(clu.zones) :
          /\ z.touches = 3
          /\ RLt(RDiv(clu.tolerance_percent, RInt(100)),
                 RDiv(RSub(z.max_price, z.min_price), z.min_price))

\* C15: _cluster_levels called with an empty list of levels returns an
\* empty list.
C15_EmptyLevels ==
    (pc = "return" /\ clu.levels = <<>>) => clu.zones = <<>>

\* the call on the empty list has returned
C15_Witness ==
    pc = "return" /\ clu.levels = <<>>

(***************************************************************************)
(* C22, C30: ties and extents of the clusterer                             *)
(***************************************************************************)
\* C22: among zones of equal touches _cluster_levels keeps ascending price:
\* of two returned zones of equal touches the lower-priced comes first, and
\* of a group of equal-touches clusters the cap cuts through, the
\* lowest-priced are the ones kept.
C22_TiesAscendingPrice ==
    pc = "return" =>
        LET zones == clu.zones
            dropped == Range(Clusters(clu.levels, clu.tolerance_percent))
                          \ Range(zones)
        IN  /\ \A i, k \in 1..Len(zones) :
                  (i < k /\ zones[i].touches = zones[k].touches)
                     => RLt(zones[i].price, zones[k].price)
            /\ \A c \in dropped : \A z \in Range(zones) :
                  c.touches = z.touches => RLt(z.price, c.price)

\* six clusters, the cap cutting through the clusters of one touch
C22_Witness ==
    /\ pc = "return"
    /\ Len(Clusters(clu.levels, clu.tolerance_percent)) > ZoneCap
    /\ clu.zones[1].touches > 1
    /\ clu.zones[ZoneCap - 1].touches = 1
    /\ clu.zones[ZoneCap].touches = 1

\* number of entries of levels equal to x
CountOf(levels, x) == Cardinality({k \in 1..Len(levels) : levels[k] = x})

\* C30: the returned zones have pairwise disjoint price extents, the
\* max_price of the lower strictly below the min_price of the higher; equal
\* levels end up in the same cluster; and before the cap the touches of the
\* clusters sum to the number of levels.
C30_DisjointExtents ==
    pc = "return" =>
        LET clusters == Clusters(clu.levels, clu.tolerance_percent)
            Holds(z, x) == RLe(z.min_price, RInt(x)) /\ RLe(RInt(x), z.max_price)
        IN  /\ \A y, z \in Range(clu.zones) :
                  y # z => \/ RLt(y.max_price, z.min_price)
                           \/ RLt(z.max_price, y.min_price)
            /\ \A x \in Range(clu.levels) :
                  \E k \in 1..Len(clusters) :
                      /\ Holds(clusters[k], x)
                      /\ \A h \in 1..Len(clusters) :
                            h # k => ~Holds(clusters[h], x)
            /\ \A k \in 1..Len(clusters) :
                  clusters[k].touches
                     = Cardinality({i \in 1..Len(clu.levels) :
                                       Holds(clusters[k], clu.levels[i])})

\* a level given twice and two zones returned
C30_Witness ==
    /\ pc = "return"
    /\ \E x \in Range(clu.levels) : CountOf(clu.levels, x) >= 2
    /\ Len(clu.zones) >= 2
    /\ \E z \in Range(clu.zones) : RLt(z.min_price, z.max_price)

(***************************************************************************)
(* ZoneAnalyzer.find_support_resistance_zones                              *)
(***************************************************************************)
\* sorted(points, key=lambda x: x[0], reverse=True): stable, points of equal
\* timestamp keep their order
RECURSIVE InsertByTimestamp(_, _)
InsertByTimestamp(p, points) ==
    IF points = <<>> THEN <<p>>
    ELSE IF points[1][1] < p[1] THEN <<p>> \o points
    ELSE <<points[1]>> \o InsertByTimestamp(p, Tail(points))

\* the points left in the order given
SortByTimestamp_AsGiven(points) == points

RECURSIVE SortByTimestamp(_)
SortByTimestamp(points) ==
    IF points = <<>> THEN <<>>
    ELSE InsertByTimestamp(points[Len(points)],
                           SortByTimestamp(SubSeq(points, 1, Len(points) - 1)))

\* the copy tagged 'support' whatever the list
Tagged_AsSupport(zone, type, timeframe) ==
    [price |-> zone.price, touches |-> zone.touches,
     min_price |-> zone.min_price, max_price |-> zone.max_price,
     type |-> "support", timeframe |-> timeframe]

\* z = zone.copy(); z['type'] = type; z['timeframe'] = timeframe
Tagged(zone, type, timeframe) ==
    [price |-> zone.price, touches |-> zone.touches,
     min_price |-> zone.min_price, max_price |-> zone.max_price,
     type |-> type, timeframe |-> timeframe]

\* the test made against the centroid
NotBroken_ByPrice(zone, type, current_price) ==
    IF type = "support" THEN RLe(zone.price, current_price)
    ELSE RLe(current_price, zone.price)

\* the test of line 189 for a support zone, of line 197 for a resistance zone
NotBroken(zone, type, current_price) ==
    IF type = "support" THEN RLe(zone.min_price, current_price)
    ELSE RLe(current_price, zone.max_price)

\* the loop tagging the dicts of the clusterer themselves
ValidZones_InPlace(zones, type, timeframe, current_price) ==
    LET Keep(z) == NotBroken(z, type, current_price)
        kept == SelectSeq(zones, Keep)
    IN  [valid |-> [k \in 1..Len(kept) |-> Tagged(kept[k], type, timeframe)],
         zones |-> [k \in 1..Len(zones) |->
                      IF Keep(zones[k]) THEN Tagged(zones[k], type, timeframe)
                      ELSE zones[k]]]

\* the loops of lines 188-202: the list of tagged copies, and the dicts of
\* the clusterer as the loop leaves them
ValidZones(zones, type, timeframe, current_price) ==
    LET Keep(z) == NotBroken(z, type, current_price)
        kept == SelectSeq(zones, Keep)
    IN  [valid |-> [k \in 1..Len(kept) |-> Tagged(kept[k], type, timeframe)],
         zones |-> zones]

\* find_support_resistance_zones(df, timeframe) for a non-empty df: the six
\* returned values, and the locals handed to the clusterer and received from
\* it as they are at the return
find_support_resistance_zones(df, timeframe) ==
    LET pt == _find_peaks_and_troughs(df, DefaultOrder)
        resistance_levels == [k \in 1..Len(pt.peaks) |-> pt.peaks[k][2]]
        support_levels == [k \in 1..Len(pt.troughs) |-> pt.troughs[k][2]]
        resistance_zones == _cluster_levels(resistance_levels, ZONE_WIDTH_PERCENT)
        support_zones == _cluster_levels(support_levels, ZONE_WIDTH_PERCENT)
        current_price == RInt(df[Len(df)].close)
        support == ValidZones(support_zones, "support", timeframe, current_price)
        resistance == ValidZones(resistance_zones, "resistance", timeframe,
                                 current_price)
    IN  [valid_support |-> support.valid,
         valid_resistance |-> resistance.valid,
         peaks |-> pt.peaks,
         troughs |-> pt.troughs,
         recent_peaks |-> Take(SortByTimestamp(pt.peaks), 2),
         recent_troughs |-> Take(SortByTimestamp(pt.troughs), 2),
         support_levels |-> support_levels,
         resistance_levels |-> resistance_levels,
         support_zones |-> support.zones,
         resistance_zones |-> resistance.zones]

(***************************************************************************)
(* Specification SpecZones: one call of find_support_resistance_zones      *)
(*                                                                         *)
(* The series are flat (high 950, low 940) but for pivot candles six       *)
(* candles apart, which is farther than the window: a peak pivot carries a *)
(* chosen high, a trough pivot a chosen low.  The last candle closes at a  *)
(* chosen price, more than a window after the last pivot.                  *)
(***************************************************************************)
\* peak pivots of a series
MaxPeaks == 7
FlatHigh == 950
FlatLow == 940

\* position of the i-th peak pivot
PeakPivot(i) == (DefaultOrder + 1) * i - 3
\* positions of the two trough pivots
TroughPivots == <<DefaultOrder + 1, 2 * (DefaultOrder + 1)>>

\* length of the series
SeriesLength == PeakPivot(MaxPeaks) + DefaultOrder + 1

\* highs of the i-th peak pivot: 1000, shared by the pivots, or a high of
\* its own; the first pivot is flat or carries 1004 or a high of its own
PeakHighs(i) ==
    IF i = 1 THEN {FlatHigh, 1004, 1100} ELSE {1000, 1000 + 100 * i}

\* lows of a trough pivot: flat, 900 or 904
TroughLows == {FlatLow, 900, 904}

\* closes of the last candle
ClosePrices == {899, 901, 1004, 1700}

\* the series with the given pivot highs, pivot lows and last close
Series(highs, lows, close) ==
    [i \in 1..SeriesLength |->
        LET high == IF \E k \in 1..MaxPeaks : PeakPivot(k) = i
                    THEN highs[CHOOSE k \in 1..MaxPeaks : PeakPivot(k) = i]
                    ELSE FlatHigh
            low == IF \E k \in 1..Len(TroughPivots) : TroughPivots[k] = i
                   THEN lows[CHOOSE k \in 1..Len(TroughPivots) : TroughPivots[k] = i]
                   ELSE FlatLow
        IN  IF i = SeriesLength
            THEN [timestamp |-> Timestamp(i),
                  high |-> IF close > FlatHigh THEN close ELSE FlatHigh,
                  low |-> IF close < FlatLow THEN close ELSE FlatLow,
                  close |-> close]
            ELSE [timestamp |-> Timestamp(i), high |-> high, low |-> low,
                  close |-> FlatLow]]

\* the choices of highs for the first n peak pivots
RECURSIVE PivotHighs(_)
PivotHighs(n) ==
    IF n = 0 THEN {<<>>}
    ELSE {Append(hx[1], hx[2]) : hx \in PivotHighs(n - 1) \X PeakHighs(n)}

SeriesSet ==
    {Series(highs, lows, close) :
        highs \in PivotHighs(MaxPeaks),
        lows \in [1..Len(TroughPivots) -> TroughLows],
        close \in ClosePrices}

NoResult == [idle |-> TRUE]

InitZones ==
    /\ pc = "call"
    /\ \E df \in SeriesSet, timeframe \in Timeframes :
          fsr = [self |-> [markets |-> None], df |-> df,
                 timeframe |-> timeframe, result |-> NoResult]
    /\ cpa = Idle /\ ext = Idle /\ clu = Idle
    /\ data = Idle /\ job = Idle /\ cmd = Idle
    /\ out = Idle /\ st = Idle /\ hist = Idle

CallFindZones ==
    /\ pc = "call"
    /\ pc' = "return"
    /\ fsr' = [fsr EXCEPT !.result =
                  find_support_resistance_zones(fsr.df, fsr.timeframe)]
    /\ UNCHANGED <<cpa, ext, clu, callerVars>>

NextZones == CallFindZones

SpecZones == InitZones /\ [][NextZones]_vars

(***************************************************************************)
(* C16, C17, C20: the validity filter                                      *)
(***************************************************************************)
\* the close of the last candle of the series of the call
LastClose == RInt(fsr.df[Len(fsr.df)].close)

\* the zone without its tags
Untagged(z) ==
    [price |-> z.price, touches |-> z.touches,
     min_price |-> z.min_price, max_price |-> z.max_price]

\* the clustered zones of the prices of the points
ClusteredZones(points) ==
    Range(_cluster_levels([k \in 1..Len(points) |-> points[k][2]],
                          ZONE_WIDTH_PERCENT))

\* C16: with current_price the close of the last candle, the support list
\* holds exactly the clustered trough zones with current_price >= min_price
\* and the resistance list exactly the clustered peak zones with
\* current_price <= max_price, each once.
C16_ValidityFilter ==
    pc = "return" =>
        LET r == fsr.result
        IN  /\ {Untagged(z) : z \in Range(r.valid_support)}
                  = {z \in ClusteredZones(r.troughs) : RLe(z.min_price, LastClose)}
            /\ {Untagged(z) : z \in Range(r.valid_resistance)}
                  = {z \in ClusteredZones(r.peaks) : RLe(LastClose, z.max_price)}
            /\ Len(r.valid_support) = Cardinality(Range(r.valid_support))
            /\ Len(r.valid_resistance) = Cardinality(Range(r.valid_resistance))

\* a resistance zone is kept with the close between its centroid and its
\* max_price, beside another resistance zone and a support zone
C16_Witness ==
    /\ pc = "return"
    /\ \E z \in Range(fsr.result.valid_resistance) : RLt(z.price, LastClose)
    /\ Len(fsr.result.valid_resistance) >= 2
    /\ fsr.result.valid_support # <<>>

\* C17: each of the two returned lists has at most 5 entries and is ordered
\* by touches non-increasing; every entry of the support list has type
\* 'support', every entry of the resistance list type 'resistance', each
\* with the timeframe of the call.
C17_ListsRankedAndTagged ==
    pc = "return" =>
        LET Ranked(zones) ==
                /\ Len(zones) <= 5
                /\ \A i, k \in 1..Len(zones) :
                      i < k => zones[i].touches >= zones[k].touches
            Typed(zones, type) ==
                \A z \in Range(zones) :
                    z.type = type /\ z.timeframe = fsr.timeframe
        IN  /\ Ranked(fsr.result.valid_support)
            /\ Ranked(fsr.result.valid_resistance)
            /\ Typed(fsr.result.valid_support, "support")
            /\ Typed(fsr.result.valid_resistance, "resistance")

\* seven peaks in six clusters: five resistance zones are returned, the
\* first with more touches than the last, and a support zone is returned
C17_Witness ==
    /\ pc = "return"
    /\ Len(fsr.result.peaks) > ZoneCap + 1
    /\ Len(fsr.result.valid_resistance) = ZoneCap
    /\ fsr.result.valid_resistance[1].touches
          > fsr.result.valid_resistance[ZoneCap].touches
    /\ fsr.result.valid_support # <<>>

\* C20: recent_peaks holds the (up to) two peaks of largest timestamp, the
\* later first, recent_troughs the same of the troughs, and the raw lists
\* are in series order.
C20_RecentPoints ==
    pc = "return" =>
        LET Recent(recent, points) ==
                /\ Len(recent) = (IF Len(points) < 2 THEN Len(points) ELSE 2)
                /\ Range(recent) \subseteq Range(points)
                /\ \A i, k \in 1..Len(recent) : i < k => recent[i][1] > recent[k][1]
                /\ \A p \in Range(points) \ Range(recent) :
                      \A q \in Range(recent) : p[1] < q[1]
            InSeriesOrder(points) ==
                \A i, k \in 1..Len(points) : i < k => points[i][1] < points[k][1]
        IN  /\ Recent(fsr.result.recent_peaks, fsr.result.peaks)
            /\ Recent(fsr.result.recent_troughs, fsr.result.troughs)
            /\ InSeriesOrder(fsr.result.peaks)
            /\ InSeriesOrder(fsr.result.troughs)

\* more than two peaks and a single trough
C20_Witness ==
    /\ pc = "return"
    /\ Len(fsr.result.peaks) > 2
    /\ Len(fsr.result.recent_peaks) = 2
    /\ Len(fsr.result.troughs) = 1
    /\ Len(fsr.result.recent_troughs) = 1

(***************************************************************************)
(* C19: the frame of the core operations                                   *)
(***************************************************************************)
\* the prices of the points, in their order
PricesOf(points) == [k \in 1..Len(points) |-> points[k][2]]

Survivors == Range(fsr.result.valid_support) \cup Range(fsr.result.valid_resistance)

\* C21: a zone that survives validation at the last close p is not
\* invalidated at p: check_price_alert(p, zone, timeframe) is not 'broken'
\* for any zone returned by find_support_resistance_zones.
C21_SurvivorNotBroken ==
    pc = "return" =>
        \A z \in Survivors :
            check_price_alert(LastClose, z, fsr.timeframe)[1] # "broken"

\* C21, for the zones of at most two touches: the band of half
\* ZONE_WIDTH_PERCENT around the mean of two levels within ZONE_WIDTH_PERCENT
\* covers both of them.
C21_PairSurvivorNotBroken ==
    pc = "return" =>
        \A z \in Survivors :
            z.touches <= 2
               => check_price_alert(LastClose, z, fsr.timeframe)[1] # "broken"

\* a zone of two touches is kept with the close at its extent
C21_PairWitness ==
    /\ pc = "return"
    /\ \E z \in Survivors :
          /\ z.touches = 2
          /\ RLt(z.min_price, z.max_price)
          /\ LastClose \in {z.min_price, z.max_price}

(***************************************************************************)
(* DataManager (src/data_manager.py): the bot's store                      *)
(*   data[user_id] = [tickers, zones, sent_alerts]                         *)
(***************************************************************************)
\* a dict with no key
EmptyDict == [k \in {} |-> {}]

\* dict[k] = v
Put(dict, k, v) ==
    [x \in DOMAIN dict \cup {k} |-> IF x = k THEN v ELSE dict[x]]

\* del dict[k]
Del(dict, k) == [x \in DOMAIN dict \ {k} |-> dict[x]]

\* list.remove(x): the list without the first occurrence of x
RECURSIVE ListRemove(_, _)
ListRemove(seq, x) ==
    IF seq = <<>> THEN <<>>
    ELSE IF seq[1] = x THEN Tail(seq)
    ELSE <<seq[1]>> \o ListRemove(Tail(seq), x)

\* the record get_user_data creates for an unknown user
NewUser == [tickers |-> <<>>, zones |-> EmptyDict, sent_alerts |-> EmptyDict]

\* get_user_data: the store after the call (the user exists)
get_user_data(d, user_id) ==
    IF user_id \in DOMAIN d THEN d ELSE Put(d, user_id, NewUser)

\* str.upper() on the ticker names of the model
upper(ticker) ==
    IF ticker = "btcusdt" THEN "BTCUSDT"
    ELSE IF ticker = "ethusdt" THEN "ETHUSDT"
    ELSE ticker

\* the adding that takes the ticker as it is written
DataManager_add_ticker_AsWritten(d, user_id, ticker) ==
    LET d1 == get_user_data(d, user_id)
        user_data == d1[user_id]
    IN  IF ticker \notin Range(user_data.tickers)
        THEN [data |-> Put(d1, user_id,
                  [tickers |-> Append(user_data.tickers, ticker),
                   zones |-> Put(user_data.zones, ticker, EmptyDict),
                   sent_alerts |-> Put(user_data.sent_alerts, ticker, <<>>)]),
              result |-> TRUE]
        ELSE [data |-> d1, result |-> FALSE]

DataManager_add_ticker(d, user_id, ticker) ==
    LET d1 == get_user_data(d, user_id)
        user_data == d1[user_id]
        t == upper(ticker)
    IN  IF t \notin Range(user_data.tickers)
        THEN [data |-> Put(d1, user_id,
                  [tickers |-> Append(user_data.tickers, t),
                   zones |-> Put(user_data.zones, t, EmptyDict),
                   sent_alerts |-> Put(user_data.sent_alerts, t, <<>>)]),
              result |-> TRUE]
        ELSE [data |-> d1, result |-> FALSE]

\* the removal that leaves the sent-alert entry of the ticker
DataManager_remove_ticker_KeepsSent(d, user_id, ticker) ==
    LET d1 == get_user_data(d, user_id)
        user_data == d1[user_id]
        t == upper(ticker)
    IN  IF t \in Range(user_data.tickers)
        THEN [data |-> Put(d1, user_id,
                  [tickers |-> ListRemove(user_data.tickers, t),
                   zones |-> Del(user_data.zones, t),
                   sent_alerts |-> user_data.sent_alerts]),
              result |-> TRUE]
        ELSE [data |-> d1, result |-> FALSE]

DataManager_remove_ticker(d, user_id, ticker) ==
    LET d1 == get_user_data(d, user_id)
        user_data == d1[user_id]
        t == upper(ticker)
    IN  IF t \in Range(user_data.tickers)
        THEN [data |-> Put(d1, user_id,
                  [tickers |-> ListRemove(user_data.tickers, t),
                   zones |-> Del(user_data.zones, t),
                   sent_alerts |-> Del(user_data.sent_alerts, t)]),
              result |-> TRUE]
        ELSE [data |-> d1, result |-> FALSE]

get_tickers(d, user_id) == get_user_data(d, user_id)[user_id].tickers

update_zones(d, user_id, ticker, timeframe, support_zones, resistance_zones) ==
    LET d1 == get_user_data(d, user_id)
        user_data == d1[user_id]
        t == upper(ticker)
        old == IF t \in DOMAIN user_data.zones
               THEN user_data.zones[t] ELSE EmptyDict
        new == Put(old, timeframe,
                   [support |-> support_zones, resistance |-> resistance_zones])
    IN  Put(d1, user_id, [user_data EXCEPT !.zones = Put(user_data.zones, t, new)])

get_zones(d, user_id, ticker, timeframe) ==
    LET user_data == get_user_data(d, user_id)[user_id]
        t == upper(ticker)
    IN  IF t \in DOMAIN user_data.zones
           /\ timeframe \in DOMAIN user_data.zones[t]
        THEN user_data.zones[t][timeframe]
        ELSE [support |-> <<>>, resistance |-> <<>>]

\* the test that starts the list of the ticker again whether it has one or
\* not
is_alert_sent_NewList(d, user_id, ticker, zone_key) ==
    LET d1 == get_user_data(d, user_id)
        user_data == d1[user_id]
        t == upper(ticker)
        sent == Put(user_data.sent_alerts, t, <<>>)
    IN  [data |-> Put(d1, user_id, [user_data EXCEPT !.sent_alerts = sent]),
         result |-> zone_key \in Range(sent[t])]

\* is_alert_sent: the answer, and the store after the call (an empty list
\* is created for a ticker that has none)
is_alert_sent(d, user_id, ticker, zone_key) ==
    LET d1 == get_user_data(d, user_id)
        user_data == d1[user_id]
        t == upper(ticker)
        sent == IF t \in DOMAIN user_data.sent_alerts
                THEN user_data.sent_alerts
                ELSE Put(user_data.sent_alerts, t, <<>>)
    IN  [data |-> Put(d1, user_id, [user_data EXCEPT !.sent_alerts = sent]),
         result |-> zone_key \in Range(sent[t])]

\* the marking that appends the key without looking for it
mark_alert_sent_Append(d, user_id, ticker, zone_key) ==
    LET d1 == get_user_data(d, user_id)
        user_data == d1[user_id]
        t == upper(ticker)
        sent == IF t \in DOMAIN user_data.sent_alerts
                THEN user_data.sent_alerts
                ELSE Put(user_data.sent_alerts, t, <<>>)
    IN  Put(d1, user_id,
            [user_data EXCEPT
                !.sent_alerts = Put(sent, t, Append(sent[t], zone_key))])

mark_alert_sent(d, user_id, ticker, zone_key) ==
    LET d1 == get_user_data(d, user_id)
        user_data == d1[user_id]
        t == upper(ticker)
        sent == IF t \in DOMAIN user_data.sent_alerts
                THEN user_data.sent_alerts
                ELSE Put(user_data.sent_alerts, t, <<>>)
        sent2 == IF zone_key \notin Range(sent[t])
                 THEN Put(sent, t, Append(sent[t], zone_key))
                 ELSE sent
    IN  Put(d1, user_id, [user_data EXCEPT !.sent_alerts = sent2])

reset_alerts_for_ticker(d, user_id, ticker) ==
    LET d1 == get_user_data(d, user_id)
        user_data == d1[user_id]
        t == upper(ticker)
    IN  IF t \in DOMAIN user_data.sent_alerts
        THEN Put(d1, user_id,
                 [user_data EXCEPT !.sent_alerts = Put(user_data.sent_alerts, t, <<>>)])
        ELSE d1

\* get_all_users: the keys of the store
get_all_users(d) == DOMAIN d

(***************************************************************************)
(* The bot (src/attached_assets/main_1761340665843.py)                     *)
(*                                                                         *)
(* check_alerts is a coroutine of the job queue; the command handlers run  *)
(* one at a time on the same event loop.  A coroutine gives up control     *)
(* only at an await: job.pc and cmd.pc name the await a coroutine is       *)
(* suspended at.  job.pc = "zone" is check_alerts between two zones of its *)
(* loops, where nothing else can run.                                      *)
(***************************************************************************)
\* deliveries counted per zone key: the count stops at MaxCount
MaxCount == 2

\* user ids of the chats, in the order of data.keys()
BotUsers == <<"1">>
BotTickers == {"BTCUSDT"}

\* get_current_price returned None
NoPrice == [n |-> 0, d |-> 0]

\* prices get_current_price returns: 99 breaks the support at 100, 100 is in
\* its band, 102 approaches both zones, 105 breaks the resistance at 104
BotPrices == {RInt(99), RInt(100), RInt(102), RInt(105)}

\* a zone dict as find_support_resistance_zones returns it
StoredZone(p, ztype, timeframe) ==
    [price |-> RInt(p), touches |-> 1, min_price |-> RInt(p),
     max_price |-> RInt(p), type |-> ztype, timeframe |-> timeframe]

\* the zones an analysis of a timeframe finds
AnalysisZones(timeframe) ==
    [support |-> <<StoredZone(100, "support", timeframe)>>,
     resistance |-> <<StoredZone(104, "resistance", timeframe)>>]

NoZones == [support |-> <<>>, resistance |-> <<>>]

JobIdle ==
    [pc |-> "idle", users |-> <<>>, ui |-> 0, ti |-> 0, ticker |-> "",
     price |-> NoPrice, tfi |-> 0, side |-> "", zones |-> NoZones, zi |-> 0,
     alert_type |-> None, zone_key |-> NoKey]

CmdIdle == [pc |-> "idle", user_id |-> "", ticker |-> "", tfi |-> 0]

NoEvent == [kind |-> "none"]

\* the keys the classifier can return for the zones of the analyses
BotKeys ==
    {ZoneKey(tf, z.type, z.price) :
        tf \in Timeframes,
        z \in UNION {Range(AnalysisZones(t).support)
                       \cup Range(AnalysisZones(t).resistance) : t \in Timeframes}}

HistInit ==
    [count |-> [x \in Range(BotUsers) \X BotTickers \X BotKeys |-> 0],
     delivered |-> {}, soft |-> {}]

\* list(data.keys())
all_users(d) == SelectSeq(BotUsers, LAMBDA u : u \in get_all_users(d))

\* "for user_id in all_users" from position ui on: up to the first await of
\* get_current_price, or to the end of check_alerts
RECURSIVE EnterUser(_, _, _)
EnterUser(d, j, ui) ==
    IF ui > Len(j.users) THEN [data |-> d, job |-> JobIdle]
    ELSE LET user_id == j.users[ui]
             d1 == get_user_data(d, user_id)
             tickers == get_tickers(d, user_id)
         IN  IF tickers = <<>> THEN EnterUser(d1, j, ui + 1)
             ELSE [data |-> d1,
                   job |-> [JobIdle EXCEPT !.pc = "price", !.users = j.users,
                                           !.ui = ui, !.ti = 1,
                                           !.ticker = tickers[1]]]

\* "for ticker in tickers": the iterator of the live list moves on
NextTicker(d, j) ==
    LET tickers == get_tickers(d, j.users[j.ui])
    IN  IF j.ti + 1 <= Len(tickers)
        THEN [data |-> d,
              job |-> [JobIdle EXCEPT !.pc = "price", !.users = j.users,
                                      !.ui = j.ui, !.ti = j.ti + 1,
                                      !.ticker = tickers[j.ti + 1]]]
        ELSE EnterUser(d, j, j.ui + 1)

\* "for timeframe in ALL_TIMEFRAMES" at position tfi: zones is read from
\* the store when the iteration starts
EnterTimeframe(d, j, tfi) ==
    IF tfi > Len(TimeframeList) THEN NextTicker(d, j)
    ELSE [data |-> d,
          job |-> [j EXCEPT !.pc = "zone", !.tfi = tfi, !.side = "support",
                            !.zi = 1,
                            !.zones = get_zones(d, j.users[j.ui], j.ticker,
                                                TimeframeList[tfi]),
                            !.alert_type = None, !.zone_key = NoKey]]

\* the zones stored for a ticker, EmptyDict when it has none
ZonesOf(d, user_id, ticker) ==
    IF user_id \in DOMAIN d /\ ticker \in DOMAIN d[user_id].zones
    THEN d[user_id].zones[ticker] ELSE EmptyDict

\* the delivery counts start again for a ticker whose stored zones changed
CountAfter(count, d, d2) ==
    [x \in DOMAIN count |->
        IF ZonesOf(d, x[1], x[2]) = ZonesOf(d2, x[1], x[2]) THEN count[x] ELSE 0]

\* the keys with a delivered 'approaching' or 'in_zone' alert are forgotten
\* for a ticker whose stored zones changed
SoftAfter(soft, d, d2) ==
    {x \in soft : ZonesOf(d, x[1], x[2]) = ZonesOf(d2, x[1], x[2])}

InitBot ==
    /\ data = EmptyDict
    /\ job = JobIdle
    /\ cmd = CmdIdle
    /\ out = NoEvent
    /\ hist = HistInit
    /\ pc = "idle" /\ cpa = Idle /\ ext = Idle /\ clu = Idle /\ fsr = Idle /\ st = Idle

\* job_queue.run_repeating(periodic_check): check_alerts starts and runs to
\* its first await
periodic_check ==
    /\ job.pc = "idle"
    /\ LET r == EnterUser(data, [JobIdle EXCEPT !.users = all_users(data)], 1)
       IN  data' = r.data /\ job' = r.job
    /\ out' = NoEvent
    /\ UNCHANGED <<pc, cpa, ext, clu, fsr, cmd, st, hist>>

\* check_alerts, line 184: get_current_price returns
check_alerts_price(current_price) ==
    /\ job.pc = "price"
    /\ LET r == IF current_price = NoPrice THEN NextTicker(data, job)
                ELSE EnterTimeframe(data, [job EXCEPT !.price = current_price], 1)
       IN  data' = r.data /\ job' = r.job
    /\ out' = NoEvent
    /\ UNCHANGED <<pc, cpa, ext, clu, fsr, cmd, st, hist>>

\* check_alerts, lines 193-216: one step of the loops over the support and
\* the resistance zones of a timeframe; a zone whose alert is due enters
\* send_alert, which resets the ticker on 'broken' and awaits send_message
check_alerts_zone ==
    /\ job.pc = "zone"
    /\ LET user_id == job.users[job.ui]
           ticker == job.ticker
           timeframe == TimeframeList[job.tfi]
           list == job.zones[job.side]
       IN  IF job.zi > Len(list)
           THEN /\ LET r == IF job.side = "support"
                            THEN [data |-> data,
                                  job |-> [job EXCEPT !.side = "resistance", !.zi = 1]]
                            ELSE EnterTimeframe(data, job, job.tfi + 1)
                   IN  data' = r.data /\ job' = r.job
                /\ out' = NoEvent
           ELSE LET zone == list[job.zi]
                    res == check_price_alert(job.price, zone, timeframe)
                    alert_type == res[1]
                    zone_key == res[2]
                    due == alert_type # None /\ zone_key # NoKey
                    s == is_alert_sent(data, user_id, ticker, zone_key)
                    before == IF user_id \in DOMAIN data
                                 /\ ticker \in DOMAIN data[user_id].sent_alerts
                              THEN data[user_id].sent_alerts[ticker] ELSE <<>>
                IN  /\ data' = IF ~due THEN data
                               ELSE IF s.result THEN s.data
                               ELSE IF alert_type = "broken"
                                    THEN reset_alerts_for_ticker(s.data, user_id, ticker)
                               ELSE s.data
                    /\ job' = IF due /\ ~s.result
                              THEN [job EXCEPT !.pc = "send",
                                               !.alert_type = alert_type,
                                               !.zone_key = zone_key]
                              ELSE [job EXCEPT !.zi = @ + 1]
                    /\ out' = [kind |-> "check", user_id |-> user_id,
                               ticker |-> ticker, alert_type |-> alert_type,
                               zone_key |-> zone_key, before |-> before,
                               was_sent |-> due /\ s.result]
    /\ UNCHANGED <<pc, cpa, ext, clu, fsr, cmd, st, hist>>

\* send_alert, line 256: send_message returns (ok) or raises; the except of
\* line 277 swallows the error and send_alert returns
send_alert_message(ok) ==
    /\ job.pc = "send"
    /\ LET user_id == job.users[job.ui]
       IN  IF ok
           THEN /\ job' = [job EXCEPT !.pc = "chart"]
                /\ data' = data
                /\ hist' = [hist EXCEPT
                      !.count[<<user_id, job.ticker, job.zone_key>>] =
                          IF @ < MaxCount THEN @ + 1 ELSE @,
                      !.delivered = @ \cup {<<user_id, job.ticker, job.zone_key>>},
                      !.soft = IF job.alert_type \in {"approaching", "in_zone"}
                               THEN @ \cup {<<user_id, job.ticker, job.zone_key>>}
                               ELSE @]
           ELSE /\ data' = mark_alert_sent(data, user_id, job.ticker, job.zone_key)
                /\ job' = [job EXCEPT !.pc = "zone", !.zi = @ + 1,
                                      !.alert_type = None, !.zone_key = NoKey]
                /\ hist' = hist
    /\ out' = [kind |-> "send", ok |-> ok, user_id |-> job.users[job.ui],
               ticker |-> job.ticker, zone_key |-> job.zone_key,
               alert_type |-> job.alert_type]
    /\ UNCHANGED <<pc, cpa, ext, clu, fsr, cmd, st>>

\* send_alert, lines 259-275 (the chart is fetched and sent, errors are
\* swallowed), then check_alerts line 204/216: mark_alert_sent
send_alert_chart ==
    /\ job.pc = "chart"
    /\ data' = mark_alert_sent(data, job.users[job.ui], job.ticker, job.zone_key)
    /\ job' = [job EXCEPT !.pc = "zone", !.zi = @ + 1,
                          !.alert_type = None, !.zone_key = NoKey]
    /\ out' = NoEvent
    /\ UNCHANGED <<pc, cpa, ext, clu, fsr, cmd, st, hist>>

\* a command handler can start when no handler is running and check_alerts
\* is suspended or not running
CanHandle == cmd.pc = "idle" /\ job.pc # "zone"

\* /add: lines 43-57 up to the first await of analyze_timeframe
add_ticker(user_id, ticker) ==
    /\ CanHandle
    /\ LET r == DataManager_add_ticker(data, user_id, ticker)
       IN  /\ data' = r.data
           /\ cmd' = IF r.result
                     THEN [pc |-> "analyze", user_id |-> user_id,
                           ticker |-> ticker, tfi |-> 1]
                     ELSE CmdIdle
           /\ hist' = [hist EXCEPT !.count = CountAfter(@, data, r.data),
                                   !.soft = SoftAfter(@, data, r.data)]
    /\ out' = NoEvent
    /\ UNCHANGED <<pc, cpa, ext, clu, fsr, job, st>>

\* /remove: lines 59-69
remove_ticker(user_id, ticker) ==
    /\ CanHandle
    /\ LET r == DataManager_remove_ticker(data, user_id, ticker)
       IN  /\ data' = r.data
           /\ hist' = [hist EXCEPT !.count = CountAfter(@, data, r.data),
                                   !.soft = SoftAfter(@, data, r.data)]
    /\ cmd' = CmdIdle
    /\ out' = NoEvent
    /\ UNCHANGED <<pc, cpa, ext, clu, fsr, job, st>>

\* analyze_timeframe, lines 131-142, for the next timeframe of /add:
\* fetch_ohlcv returns no usable series (has_data false), or the zones found
\* are stored
analyze_timeframe(has_data) ==
    /\ cmd.pc = "analyze"
    /\ job.pc # "zone"
    /\ LET timeframe == TimeframeList[cmd.tfi]
           found == AnalysisZones(timeframe)
           d2 == IF has_data
                 THEN update_zones(data, cmd.user_id, cmd.ticker, timeframe,
                                   found.support, found.resistance)
                 ELSE data
       IN  /\ data' = d2
           /\ hist' = [hist EXCEPT !.count = CountAfter(@, data, d2),
                                   !.soft = SoftAfter(@, data, d2)]
    /\ cmd' = IF cmd.tfi < Len(TimeframeList)
              THEN [cmd EXCEPT !.tfi = @ + 1] ELSE CmdIdle
    /\ out' = NoEvent
    /\ UNCHANGED <<pc, cpa, ext, clu, fsr, job, st>>

NextBot ==
    \/ periodic_check
    \/ \E p \in BotPrices \cup {NoPrice} : check_alerts_price(p)
    \/ check_alerts_zone
    \/ \E ok \in BOOLEAN : send_alert_message(ok)
    \/ send_alert_chart
    \/ \E u \in Range(BotUsers), t \in BotTickers : add_ticker(u, t)
    \/ \E u \in Range(BotUsers), t \in BotTickers : remove_ticker(u, t)
    \/ \E has_data \in BOOLEAN : analyze_timeframe(has_data)

SpecBot == InitBot /\ [][NextBot]_vars

(***************************************************************************)
(* Specification SpecStore: calls of the DataManager methods in any order  *)
(*   data = the store, out = the last call and what it returned,           *)
(*   hist = the keys marked since the ticker was last reset, removed or    *)
(*          added                                                          *)
(***************************************************************************)
StoreUsers == {"1", "2"}

StoreTickers == {"BTCUSDT", "btcusdt", "ETHUSDT"}

StoreKeys ==
    {ZoneKey("5m", "support", RInt(100)), ZoneKey("5m", "resistance", RInt(104))}

\* the arguments of the calls: the second user holds one ticker and one key
StoreArgs ==
    [user_id : {"1"}, ticker : StoreTickers, zone_key : StoreKeys]
       \cup [user_id : {"2"}, ticker : {"BTCUSDT"},
             zone_key : {ZoneKey("5m", "support", RInt(100))}]

\* the marked keys without those of a ticker of a user
Unmarked(marked, user_id, ticker) ==
    {x \in marked : ~(x[1] = user_id /\ x[2] = upper(ticker))}

InitStore ==
    /\ data = EmptyDict
    /\ out = NoEvent
    /\ hist = {}
    /\ pc = "idle" /\ cpa = Idle /\ ext = Idle /\ clu = Idle /\ fsr = Idle
    /\ job = Idle /\ cmd = Idle /\ st = Idle

call_add_ticker(user_id, ticker) ==
    /\ LET r == DataManager_add_ticker(data, user_id, ticker)
       IN  /\ data' = r.data
           /\ out' = [op |-> "add_ticker", user_id |-> user_id,
                      ticker |-> ticker, zone_key |-> NoKey, result |-> r.result]
           /\ hist' = IF r.result THEN Unmarked(hist, user_id, ticker) ELSE hist
    /\ UNCHANGED <<pc, cpa, ext, clu, fsr, job, cmd, st>>

call_remove_ticker(user_id, ticker) ==
    /\ LET r == DataManager_remove_ticker(data, user_id, ticker)
       IN  /\ data' = r.data
           /\ out' = [op |-> "remove_ticker", user_id |-> user_id,
                      ticker |-> ticker, zone_key |-> NoKey, result |-> r.result]
           /\ hist' = IF r.result THEN Unmarked(hist, user_id, ticker) ELSE hist
    /\ UNCHANGED <<pc, cpa, ext, clu, fsr, job, cmd, st>>

call_update_zones(user_id, ticker) ==
    /\ data' = update_zones(data, user_id, ticker, "5m",
                            AnalysisZones("5m").support,
                            AnalysisZones("5m").resistance)
    /\ out' = [op |-> "update_zones", user_id |-> user_id, ticker |-> ticker,
               zone_key |-> NoKey, result |-> None]
    /\ UNCHANGED <<pc, cpa, ext, clu, fsr, job, cmd, st, hist>>

call_is_alert_sent(user_id, ticker, zone_key) ==
    /\ LET r == is_alert_sent(data, user_id, ticker, zone_key)
       IN  /\ data' = r.data
           /\ out' = [op |-> "is_alert_sent", user_id |-> user_id,
                      ticker |-> ticker, zone_key |-> zone_key,
                      result |-> r.result]
    /\ UNCHANGED <<pc, cpa, ext, clu, fsr, job, cmd, st, hist>>

call_mark_alert_sent(user_id, ticker, zone_key) ==
    /\ data' = mark_alert_sent(data, user_id, ticker, zone_key)
    /\ out' = [op |-> "mark_alert_sent", user_id |-> user_id, ticker |-> ticker,
               zone_key |-> zone_key, result |-> None]
    /\ hist' = hist \cup {<<user_id, upper(ticker), zone_key>>}
    /\ UNCHANGED <<pc, cpa, ext, clu, fsr, job, cmd, st>>

call_reset_alerts_for_ticker(user_id, ticker) ==
    /\ data' = reset_alerts_for_ticker(data, user_id, ticker)
    /\ out' = [op |-> "reset_alerts_for_ticker", user_id |-> user_id,
               ticker |-> ticker, zone_key |-> NoKey, result |-> None]
    /\ hist' = Unmarked(hist, user_id, ticker)
    /\ UNCHANGED <<pc, cpa, ext, clu, fsr, job, cmd, st>>

NextStore ==
    \E c \in StoreArgs :
        \/ call_add_ticker(c.user_id, c.ticker)
        \/ call_remove_ticker(c.user_id, c.ticker)
        \/ call_update_zones(c.user_id, c.ticker)
        \/ call_is_alert_sent(c.user_id, c.ticker, c.zone_key)
        \/ call_mark_alert_sent(c.user_id, c.ticker, c.zone_key)
        \/ call_reset_alerts_for_ticker(c.user_id, c.ticker)

SpecStore == InitStore /\ [][NextStore]_vars

(***************************************************************************)
(* The dashboard (src/app.py): get_alert_status over                      *)
(* st.session_state.sent_alerts                                            *)
(*                                                                         *)
(* A ticker is the sequence of its "_"-separated parts, a full key         *)
(* f"{ticker}_{zone_key}" the ticker's parts followed by the key's parts.  *)
(***************************************************************************)
\* tickers typed into the dashboard
DashTickers == {<<"BTCUSDT">>, <<"BTCUSDT", "250328">>}

\* k.startswith(f"{ticker}_")
StartsWithTicker(k, ticker) ==
    Len(k) > Len(ticker) /\ SubSeq(k, 1, Len(ticker)) = ticker

\* get_alert_status: the returned alert type, sent_alerts after the call,
\* and whether a record went to alert_history and add_alert_to_db
get_alert_status(sent_alerts, current_price, zone, timeframe, ticker) ==
    LET res == check_price_alert(current_price, zone, timeframe)
        alert_type == res[1]
        zone_key == res[2]
        full_key == ticker \o zone_key
        fresh == alert_type # None /\ zone_key # NoKey
                    /\ full_key \notin sent_alerts
        marked == sent_alerts \cup {full_key}
    IN  [alert_type |-> alert_type,
         full_key |-> IF alert_type # None THEN full_key ELSE NoKey,
         recorded |-> fresh,
         sent_alerts |->
            IF ~fresh THEN sent_alerts
            ELSE IF alert_type = "broken"
                 THEN {k \in marked : ~StartsWithTicker(k, ticker)}
            ELSE marked]

InitDash ==
    /\ st = [sent_alerts |-> {}, last |-> NoEvent]
    /\ pc = "idle" /\ cpa = Idle /\ ext = Idle /\ clu = Idle /\ fsr = Idle
    /\ data = Idle /\ job = Idle /\ cmd = Idle /\ out = Idle /\ hist = Idle

\* one call of get_alert_status from the script run (lines 267 and 290)
call_get_alert_status(current_price, zone, ticker) ==
    /\ LET r == get_alert_status(st.sent_alerts, current_price, zone,
                                 zone.timeframe, ticker)
       IN  st' = [sent_alerts |-> r.sent_alerts,
                  last |-> [kind |-> "check", ticker |-> ticker,
                            alert_type |-> r.alert_type,
                            full_key |-> r.full_key,
                            recorded |-> r.recorded,
                            was_sent |-> r.full_key \in st.sent_alerts]]
    /\ UNCHANGED <<pc, cpa, ext, clu, fsr, data, job, cmd, out, hist>>

\* the zones the script run shows
DashZones ==
    UNION {Range(AnalysisZones(tf).support) \cup Range(AnalysisZones(tf).resistance) :
              tf \in Timeframes}

NextDash ==
    \E current_price \in BotPrices, zone \in DashZones, ticker \in DashTickers :
        call_get_alert_status(current_price, zone, ticker)

SpecDash == InitDash /\ [][NextDash]_vars

(***************************************************************************)
(* Specification SpecPair: the bot and the dashboard fed the same checks   *)
(*   data = the bot's store, st = the dashboard's session state,           *)
(*   out = what each of them did with the last check                       *)
(***************************************************************************)
PairUser == "1"

PairTickers == {<<"BTCUSDT">>, <<"ETHUSDT">>}

\* the ticker as the bot holds it
TickerName(ticker) == ticker[1]

\* check_alerts, lines 194-204, for one zone, send_message delivering: the
\* store after mark_alert_sent, and whether an alert was sent
check_zone(d, user_id, ticker, current_price, zone, timeframe) ==
    LET res == check_price_alert(current_price, zone, timeframe)
        alert_type == res[1]
        zone_key == res[2]
        due == alert_type # None /\ zone_key # NoKey
        s == is_alert_sent(d, user_id, ticker, zone_key)
        d1 == IF alert_type = "broken"
              THEN reset_alerts_for_ticker(s.data, user_id, ticker)
              ELSE s.data
    IN  IF ~due THEN [data |-> d, delivered |-> FALSE, zone_key |-> zone_key]
        ELSE IF s.result
             THEN [data |-> s.data, delivered |-> FALSE, zone_key |-> zone_key]
        ELSE [data |-> mark_alert_sent(d1, user_id, ticker, zone_key),
              delivered |-> TRUE, zone_key |-> zone_key]

\* both have the tickers and no key
InitPair ==
    /\ data = DataManager_add_ticker(
                  DataManager_add_ticker(EmptyDict, PairUser, "BTCUSDT").data,
                  PairUser, "ETHUSDT").data
    /\ st = [sent_alerts |-> {}, last |-> NoEvent]
    /\ out = NoEvent
    /\ pc = "idle" /\ cpa = Idle /\ ext = Idle /\ clu = Idle /\ fsr = Idle
    /\ job = Idle /\ cmd = Idle /\ hist = Idle

\* the same price, zone and ticker are checked by check_alerts and by
\* get_alert_status
check_both(current_price, zone, ticker) ==
    /\ LET b == check_zone(data, PairUser, TickerName(ticker), current_price,
                           zone, zone.timeframe)
           r == get_alert_status(st.sent_alerts, current_price, zone,
                                 zone.timeframe, ticker)
       IN  /\ data' = b.data
           /\ st' = [sent_alerts |-> r.sent_alerts,
                     last |-> [kind |-> "check", ticker |-> ticker,
                               alert_type |-> r.alert_type,
                               full_key |-> r.full_key,
                               recorded |-> r.recorded,
                               was_sent |-> r.full_key \in st.sent_alerts]]
           /\ out' = [kind |-> "pair", ticker |-> ticker,
                      zone_key |-> b.zone_key, alert_type |-> r.alert_type,
                      bot_delivered |-> b.delivered,
                      dashboard_delivered |-> r.recorded]
    /\ UNCHANGED <<pc, cpa, ext, clu, fsr, job, cmd, hist>>

\* the zones of one timeframe
PairZones ==
    Range(AnalysisZones("5m").support) \cup Range(AnalysisZones("5m").resistance)

NextPair ==
    \E current_price \in BotPrices, zone \in PairZones, ticker \in PairTickers :
        check_both(current_price, zone, ticker)

SpecPair == InitPair /\ [][NextPair]_vars

(***************************************************************************)
(* C3 .. C6: the callers' sent-alert store                                 *)
(***************************************************************************)
\* C3: a key goes from unsent to sent the first time a non-None alert type
\* is produced for it, and a check that produces a key recorded as sent
\* delivers no alert.  Stated for the dashboard's get_alert_status.
C3_SentOnFirstAlert ==
    st.last.kind = "check" =>
        /\ st.last.recorded => st.last.full_key \in st.sent_alerts
        /\ (st.last.alert_type # None /\ st.last.was_sent)
              => ~st.last.recorded

\* C3 for the bot: a zone whose key is recorded as sent does not enter
\* send_alert, and once send_alert has returned the key is recorded as sent
C3_BotSentOnFirstAlert ==
    /\ (out.kind = "check" /\ out.was_sent) => job.pc # "send"
    /\ (out.kind = "send" /\ ~out.ok)
          => out.zone_key \in Range(data[out.user_id].sent_alerts[out.ticker])

\* C4: after a check classifies a zone of a ticker as 'broken', none of the
\* keys recorded for that ticker before the check is still recorded, also
\* when the broken zone's own key was among them.
C4_BrokenClearsAll ==
    (out.kind = "check" /\ out.alert_type = "broken") =>
        \A k \in Range(out.before) :
            k \notin Range(data[out.user_id].sent_alerts[out.ticker])

\* C4 where the broken zone's key was not recorded: the reset runs
C4_BrokenUnsentClearsAll ==
    (out.kind = "check" /\ out.alert_type = "broken" /\ ~out.was_sent) =>
        data[out.user_id].sent_alerts[out.ticker] = <<>>

\* C5: while the stored zones of a ticker stay the same, at most one alert
\* is delivered for any one zone key.
C5_OneAlertPerZone ==
    \A x \in DOMAIN hist.count : hist.count[x] <= 1

\* C6: every key in a ticker's sent-alert list is a key for which
\* send_message delivered an alert.
C6_SentWasDelivered ==
    \A u \in DOMAIN data : \A t \in DOMAIN data[u].sent_alerts :
        \A k \in Range(data[u].sent_alerts[t]) : <<u, t, k>> \in hist.delivered

(***************************************************************************)
(* C27 .. C29: the DataManager methods                                     *)
(***************************************************************************)
\* the sent-alert list of a ticker of a user, empty when there is none
SentList(d, user_id, ticker) ==
    IF user_id \in DOMAIN d /\ upper(ticker) \in DOMAIN d[user_id].sent_alerts
    THEN d[user_id].sent_alerts[upper(ticker)] ELSE <<>>

\* the list has no entry twice
NoDuplicate(seq) == Cardinality(Range(seq)) = Len(seq)

\* the tickers, the zones and the sent-alert lists of a user, those of an
\* unknown user being empty
UserData(d, user_id) == IF user_id \in DOMAIN d THEN d[user_id] ELSE NewUser

\* the ticker is in the user's tickers list
Tracked(d, user_id, ticker) ==
    upper(ticker) \in Range(UserData(d, user_id).tickers)

\* C27: a ticker's sent-alert list behaves as a set: it never holds a key
\* twice; is_alert_sent(key) is True exactly when mark_alert_sent(key) was
\* called since the ticker was last reset, removed or added; and a call of
\* is_alert_sent changes the answer of no later is_alert_sent.
C27_SentAlertsIsSet ==
    /\ \A c \in StoreArgs : NoDuplicate(SentList(data, c.user_id, c.ticker))
    /\ \A c \in StoreArgs :
          is_alert_sent(data, c.user_id, c.ticker, c.zone_key).result
             = (<<c.user_id, upper(c.ticker), c.zone_key>> \in hist)
    /\ out # NoEvent /\ out.op = "is_alert_sent"
          => out.result = (<<out.user_id, upper(out.ticker), out.zone_key>> \in hist)
    /\ \A c, e \in StoreArgs :
          is_alert_sent(is_alert_sent(data, c.user_id, c.ticker, c.zone_key).data,
                        e.user_id, e.ticker, e.zone_key).result
             = is_alert_sent(data, e.user_id, e.ticker, e.zone_key).result

\* is_alert_sent answers True for a marked key of a ticker whose other key
\* is unsent
C27_Witness ==
    /\ out # NoEvent /\ out.op = "is_alert_sent" /\ out.result
    /\ Len(SentList(data, out.user_id, out.ticker)) = 1
    /\ \E k \in StoreKeys :
          /\ k # out.zone_key
          /\ ~is_alert_sent(data, out.user_id, out.ticker, k).result

\* C28: the tickers list of a user never holds a ticker twice (tickers
\* compared upper-cased); add_ticker for a tracked ticker returns False and
\* leaves tickers, zones and sent_alerts unchanged; add_ticker for a new
\* ticker returns True, appends it and gives it an empty zones entry and an
\* empty sent-alert list.
C28_AddTicker ==
    [][/\ \A u \in DOMAIN data' :
            \A i, k \in 1..Len(data'[u].tickers) :
               i # k => upper(data'[u].tickers[i]) # upper(data'[u].tickers[k])
       /\ (out' # NoEvent /\ out'.op = "add_ticker") =>
             LET u == out'.user_id
                 t == upper(out'.ticker)
             IN  IF Tracked(data, u, t)
                 THEN out'.result = FALSE /\ data' = data
                 ELSE /\ out'.result = TRUE
                      /\ data'[u].tickers = Append(UserData(data, u).tickers, t)
                      /\ data'[u].zones[t] = EmptyDict
                      /\ data'[u].sent_alerts[t] = <<>>]_vars

\* add_ticker returned False for a tracked ticker given in lower case, and
\* the user tracks two tickers
C28_Witness ==
    /\ out # NoEvent /\ out.op = "add_ticker"
    /\ out.ticker = "btcusdt" /\ out.result = FALSE
    /\ Len(data[out.user_id].tickers) = 2
    /\ SentList(data, out.user_id, out.ticker) # <<>>

\* C28: add_ticker returned True for the second ticker of a user whose
\* first ticker has a marked key
C28_AddedWitness ==
    /\ out # NoEvent /\ out.op = "add_ticker" /\ out.result = TRUE
    /\ Len(data[out.user_id].tickers) = 2
    /\ \E k \in StoreKeys : <<out.user_id, data[out.user_id].tickers[1], k>> \in hist

\* what remove_ticker leaves alone: the other users, and the other tickers
\* of the user
RemoveFrame(d, d2, user_id, ticker) ==
    /\ \A u \in DOMAIN d \ {user_id} : u \in DOMAIN d2 /\ d2[u] = d[u]
    /\ \A u \in DOMAIN d2 \ {user_id} : u \in DOMAIN d
    /\ LET old == UserData(d, user_id)
           new == UserData(d2, user_id)
       IN  /\ new.tickers = ListRemove(old.tickers, upper(ticker))
           /\ new.zones = Del(old.zones, upper(ticker))
           /\ new.sent_alerts = Del(old.sent_alerts, upper(ticker))

\* after remove_ticker and add_ticker of a ticker every key is unsent
UnsentAfterReAdd(d, user_id, ticker) ==
    LET removed == DataManager_remove_ticker(d, user_id, ticker).data
        added == DataManager_add_ticker(removed, user_id, ticker).data
    IN  \A k \in StoreKeys : ~is_alert_sent(added, user_id, ticker, k).result

\* C29: remove_ticker for a tracked ticker returns True and removes the
\* ticker from the tickers list with its zones entry and its sent-alert
\* entry, leaving every other ticker's data unchanged; for an untracked
\* ticker it returns False and changes nothing; after remove_ticker and
\* add_ticker of the same ticker every key is unsent.
C29_RemoveTicker ==
    [][(out' # NoEvent /\ out'.op = "remove_ticker") =>
          LET u == out'.user_id
              t == upper(out'.ticker)
          IN  /\ IF Tracked(data, u, t)
                 THEN out'.result = TRUE /\ RemoveFrame(data, data', u, t)
                 ELSE out'.result = FALSE /\ data' = data
              /\ UnsentAfterReAdd(data, u, t)]_vars

\* C29, with what remove_ticker changes for an untracked ticker: it returns
\* False and leaves the tickers, the zones and the sent-alert lists of
\* every user unchanged, and a user not yet in the store is in it with an
\* empty record.
C29_RemoveTickerCreatesUser ==
    [][(out' # NoEvent /\ out'.op = "remove_ticker") =>
          LET u == out'.user_id
              t == upper(out'.ticker)
          IN  /\ IF Tracked(data, u, t)
                 THEN out'.result = TRUE /\ RemoveFrame(data, data', u, t)
                 ELSE /\ out'.result = FALSE
                      /\ DOMAIN data' = DOMAIN data \cup {u}
                      /\ \A x \in DOMAIN data' : data'[x] = UserData(data, x)
              /\ UnsentAfterReAdd(data, u, t)]_vars

\* remove_ticker returned True for a ticker with zones and a marked key,
\* beside another ticker with a marked key
C29_Witness ==
    /\ out # NoEvent /\ out.op = "remove_ticker" /\ out.result = TRUE
    /\ upper(out.ticker) \notin DOMAIN data[out.user_id].sent_alerts
    /\ upper(out.ticker) \notin DOMAIN data[out.user_id].zones
    /\ \E t \in StoreTickers : SentList(data, out.user_id, t) # <<>>
    /\ \E u \in DOMAIN data : u # out.user_id /\ data[u].tickers # <<>>

\* C29: remove_ticker returned False to a user it put in the store
C29_UnknownUserWitness ==
    /\ out # NoEvent /\ out.op = "remove_ticker" /\ out.result = FALSE
    /\ DOMAIN data = {out.user_id}
    /\ data[out.user_id] = NewUser

(***************************************************************************)
(* C24: the reset and the other tickers                                    *)
(***************************************************************************)
\* the ticker of a full key of the dashboard: the key without the
\* timeframe, the zone type and the price that end it
KeyTicker(full_key) == SubSeq(full_key, 1, Len(full_key) - Len(ZoneKey("5m", "support", RInt(100))))

\* C24: the reset that a 'broken' alert of a ticker triggers leaves the
\* sent keys of every other ticker unchanged.  Stated for the dashboard's
\* removal of the keys that start with "{ticker}_".
C24_ResetLeavesOtherTickers ==
    [][(st'.last.kind = "check" /\ st'.last.alert_type = "broken")
          => \A k \in st.sent_alerts :
                KeyTicker(k) # st'.last.ticker => k \in st'.sent_alerts]_vars

\* C24 for DataManager.reset_alerts_for_ticker: the sent-alert lists of the
\* other tickers of the user and those of the other users are unchanged.
C24_StoreResetLeavesOthers ==
    [][(out' # NoEvent /\ out'.op = "reset_alerts_for_ticker")
          => \A c \in StoreArgs :
                (c.user_id # out'.user_id \/ upper(c.ticker) # upper(out'.ticker))
                   => SentList(data', c.user_id, c.ticker)
                         = SentList(data, c.user_id, c.ticker)]_vars

\* reset_alerts_for_ticker emptied a list beside a marked key of another
\* ticker and a marked key of another user
C24_StoreWitness ==
    /\ out # NoEvent /\ out.op = "reset_alerts_for_ticker"
    /\ \E x \in hist : x[1] = out.user_id /\ x[2] # upper(out.ticker)
    /\ \E x \in hist : x[1] # out.user_id /\ x[2] = upper(out.ticker)

C25_DashSentKeySuppressed ==
    [][(st'.last.kind = "check" /\ st'.last.was_sent)
          => ~st'.last.recorded /\ st'.sent_alerts = st.sent_alerts]_vars

(***************************************************************************)
(* C23: check_alerts against the command handlers                          *)
(***************************************************************************)
\* C23: access to a ticker's sent-alert list is serialized: after
\* remove_ticker completes no sent-alert entry of the removed ticker
\* reappears, so a ticker that is not in a user's tickers list has no
\* recorded key.
C23_NoEntryAfterRemove ==
    \A u \in DOMAIN data : \A t \in BotTickers :
        t \notin Range(data[u].tickers) => SentList(data, u, t) = <<>>

\* C23: between is_alert_sent answering False in check_alerts and the
\* mark_alert_sent that follows the awaited send_alert, no step changes the
\* store.
C23_NoChangeAcrossSend ==
    [][(job.pc \in {"send", "chart"} /\ job'.pc \in {"send", "chart"})
          => data' = data]_vars

(***************************************************************************)
(* C26: the bot against the dashboard                                      *)
(***************************************************************************)
\* C26: fed the same checks from an empty store the bot and the dashboard
\* deliver the same alerts, and right after a delivered 'broken' alert the
\* broken zone's own key has the same sent status in both.
C26_SameStateMachine ==
    out.kind = "pair" =>
        /\ out.bot_delivered = out.dashboard_delivered
        /\ (out.alert_type = "broken" /\ out.bot_delivered)
              => (is_alert_sent(data, PairUser, TickerName(out.ticker),
                                out.zone_key).result
                    = (out.ticker \o out.zone_key \in st.sent_alerts))

====
